---- MODULE Spec2Model ----
(***************************************************************************)
(* State-machine model of MetalCompute (src/m3_ide/metal_utils.py): the    *)
(* kernel compiler / pipeline table, the shared buffer pool, the four-     *)
(* stage sequence pipeline, the quantizer and the inner-product search.    *)
(* One caller drives one instance; every device call draws its outcome     *)
(* from the outcomes the Metal API can produce (a value, a null return,    *)
(* or an exception).                                                       *)
(***************************************************************************)
EXTENDS Integers, Sequences, FiniteSets, TLC

\* ---------------------------------------------------------------- bounds
MaxLen == 2          \* short input sequences have 0..MaxLen elements
MaxOver == 1         \* long input sequences reach MAX_SEQ_LENGTH + MaxOver

MaxEmb == 2          \* embeddings handed to the quantizer have 0..MaxEmb elements

Dim == 4             \* vector dimension D of the search inputs
MaxN == 4            \* databases hold 0..MaxN rows

MaxElems == 12       \* 1D dispatches over 1..MaxElems elements
MaxThreads == 12     \* kernel limits of 1..MaxThreads threads per group
MaxPos == 2          \* table rows 0..MaxPos and the last row are examined

MaxReqs == 2         \* HTTP requests the API server handles concurrently
MaxChunks == 2       \* chunks of a streamed completion

\* ------------------------------------------------------ program constants
MAX_SEQ_LENGTH == 512
EMBEDDING_DIM == 256
ATTENTION_TILE == 16
SCALE_TENTHS == 1             \* self.scale = 0.1
ZERO_POINT == 128             \* self.zero_point = 128.0
TOPK_GROUP == 256             \* threads of the single top-K thread-group
FLOAT32_BYTES == 4            \* itemsize of np.float32 and np.uint32
LAYER_NORM_LEN == 4           \* np.ones(4) / np.zeros(4)
CHUNK_SIZE == 32              \* chunk_size of process_request_stream
MAX_CODE == 255               \* largest value of np.uint8

pipeline_functions ==
  <<"embed", "attention", "feedforward", "infer",
    "quantize_embeddings", "ip_search", "topk_reduce">>

PipelineNames == {pipeline_functions[i] : i \in 1..Len(pipeline_functions)}

SharedBufferNames == {"position_encodings", "layer_norm_weights", "layer_norm_bias"}

\* the four stages of process_sequence, in the order the code calls them
Stages == <<"embed", "attention", "feedforward", "infer">>

\* maxTotalThreadsPerThreadgroup() values a pipeline may report
ThreadLimits == {2, 1024}

\* input lengths handed to process_sequence
SeqLens == (0..MaxLen) \cup ((MAX_SEQ_LENGTH - 1)..(MAX_SEQ_LENGTH + MaxOver))

\* float32 values handed to the quantizer, in hundredths
QVals == {-1280, 0, 100, 1270}

RECURSIVE SeqsUpTo(_, _)
SeqsUpTo(S, n) ==
  IF n = 0 THEN {<<>>}
  ELSE LET shorter == SeqsUpTo(S, n - 1)
       IN  shorter \cup {Append(q, x) : q \in shorter, x \in S}

Embeddings == SeqsUpTo(QVals, MaxEmb)

Min(a, b) == IF a < b THEN a ELSE b

\* ------------------------------------------------------------- values
NULL == [kind |-> "null", data |-> <<>>]
PENDING == [kind |-> "pending", data |-> <<>>]
Array(d) == [kind |-> "array", data |-> d]

\* a float32 array moving through the sequence pipeline: its length and the
\* kernels that produced it from the caller's input
Tensor(n, h) == [len |-> n, hist |-> h]
NoTensor == Tensor(0, <<"none">>)

\* the contents of an output buffer no kernel wrote (newBufferWithLength
\* hands out zero-filled memory)
ZeroTensor(n) == Tensor(n, <<"zeros">>)

VARIABLES
  pipelines,       \* self.pipelines: names that have a pipeline
  shared_buffers,  \* self.shared_buffers: names in the pool
  init_result,     \* "none" before initialize(), then "true"/"false"/"raised"
  op,              \* the operation in progress, or "idle"
  pc,              \* position inside the operation
  arg,             \* the argument of the operation in progress
  stage,           \* process_sequence: index of the stage being run
  data,            \* process_sequence: input of the stage being run
  cb,              \* the command buffer of the dispatch being built/run
  disp,            \* dispatches encoded during this call
  outs,            \* process_sequence: what each process_batch returned
  log,             \* commit / complete events of this call
  ret,             \* return value of the call
  pool_bytes,      \* byte length of each buffer of the pool
  req,             \* API server: the HTTP requests being handled
  loop,            \* API server: the request running on the event loop, or 0
  handler,         \* API server: the data path of the request being handled
  probe            \* a function of the program applied to chosen inputs

\* everything but the function under examination
instance_vars == <<pipelines, shared_buffers, init_result, op, pc, arg,
                   stage, data, cb, disp, outs, log, ret, pool_bytes, req, loop,
                   handler>>

vars == <<pipelines, shared_buffers, init_result, op, pc, arg,
          stage, data, cb, disp, outs, log, ret, pool_bytes, req, loop,
          handler, probe>>

\* a command buffer: how far it got, and which of the buffers bound to its
\* encoders came back null from their allocation
NoCB == [status |-> "none", nil |-> {}]

\* the kernels can run: every buffer they read or write through exists
InputsBound(c) == c.nil \cap {"input", "query", "database", "scores"} = {}

\* the read-back can run: contents() is called on a buffer, not on None
OutputsBound(c) == c.nil \cap {"output", "indices", "top_scores"} = {}

\* API server: the requests in the system, and a request not received yet
Requests == 1..MaxReqs

NoRequest == [kind |-> "none", pc |-> "new", calls |-> 0]

\* API server: no request is in a handler
NoHandler == [kind |-> "none", pc |-> "idle"]

\* no function is under examination
NoProbe == [fn |-> "none"]

\* the state a call starts from: nothing encoded, committed or returned yet
NoDispatch == <<>>

TypeOK ==
  /\ pipelines \subseteq PipelineNames
  /\ shared_buffers \subseteq SharedBufferNames
  /\ init_result \in {"none", "true", "false", "raised"}
  /\ op \in {"idle", "process_sequence", "quantize_embeddings", "ip_search"}
  /\ pc \in {"idle", "encode", "commit", "wait", "done"}
  /\ stage \in 0..Len(Stages)
  /\ cb.status \in {"none", "encoded", "committed", "completed", "error"}
  /\ ret.kind \in {"pending", "null", "array", "pair"}
  /\ DOMAIN pool_bytes = shared_buffers
  /\ loop \in {0} \cup Requests
  /\ \A r \in Requests :
       /\ req[r].kind \in {"none", "completion", "stream", "embedding", "search"}
       /\ req[r].pc \in {"new", "queued", "handler", "call", "inflight", "yielded",
                         "responded"}
       /\ req[r].calls \in 0..(MaxChunks + 2)

\* MetalCompute.__init__
InitInstance ==
  /\ pipelines = {}
  /\ shared_buffers = {}
  /\ init_result = "none"
  /\ op = "idle"
  /\ pc = "idle"
  /\ arg = NoTensor
  /\ stage = 0
  /\ data = NoTensor
  /\ cb = NoCB
  /\ disp = NoDispatch
  /\ outs = <<>>
  /\ log = <<>>
  /\ ret = PENDING
  /\ pool_bytes = <<>>
  /\ req = [r \in Requests |-> NoRequest]
  /\ loop = 0
  /\ handler = NoHandler

Init == InitInstance /\ probe = NoProbe

\* --------------------------------------------------------------- initialize
\* What the device does during one initialize(): the library fails to
\* compile, entry point `at` is not found, its pipeline is not created, a
\* device call for it raises, a pool allocation raises, or all succeeds.
InitOutcomes ==
  {[kind |-> "load_failed", at |-> 0], [kind |-> "ok", at |-> 0]}
    \cup {[kind |-> k, at |-> i] :
            k \in {"no_function", "no_pipeline", "raised"},
            i \in 1..Len(pipeline_functions)}
    \cup {[kind |-> "pool_raised", at |-> j] : j \in 1..Cardinality(SharedBufferNames)}

\* the order _initialize_shared_buffers stores the pool entries in
SharedBufferOrder == <<"position_encodings", "layer_norm_weights", "layer_norm_bias">>

\* self.pipelines after the loop of initialize() ran under outcome o: the
\* loop stores one pipeline per iteration and returns in the middle of the
\* iteration that fails, leaving the earlier entries in the map
PipelinesStored(o) ==
  CASE o.kind = "load_failed" -> {}
    [] o.kind \in {"no_function", "no_pipeline", "raised"} ->
         {pipeline_functions[i] : i \in 1..(o.at - 1)}
    [] OTHER -> PipelineNames

\* self.shared_buffers after initialize() ran under outcome o
BuffersStored(o) ==
  CASE o.kind = "ok" -> SharedBufferNames
    [] o.kind = "pool_raised" -> {SharedBufferOrder[j] : j \in 1..(o.at - 1)}
    [] OTHER -> {}

\* nbytes of the array each pool buffer is created from
PoolBufferBytes(b) ==
  IF b = "position_encodings"
    THEN MAX_SEQ_LENGTH * EMBEDDING_DIM * FLOAT32_BYTES
    ELSE LAYER_NORM_LEN * FLOAT32_BYTES

\* the positional-encoding table: the values of i the inner loop takes,
\* range(0, EMBEDDING_DIM, 2)
LoopIndices == {i \in 0..(EMBEDDING_DIM - 1) : i % 2 = 0}

\* the two assignments of iteration (pos, i): the term written and the
\* column it goes to; exp stands for the exponent exp / EMBEDDING_DIM of
\* 10000 in the divisor of pos
SinWrite(pos, i) == [col |-> i, term |-> [fn |-> "sin", pos |-> pos, exp |-> i]]

CosWriteOwnExponent(pos, i) ==
  [col |-> i + 1, term |-> [fn |-> "cos", pos |-> pos, exp |-> i + 1]]

CosWrite(pos, i) == [col |-> i + 1, term |-> [fn |-> "cos", pos |-> pos, exp |-> i]]

\* the assignments the loops make for row pos, the cosine only when its
\* column exists
RowWrites(pos) ==
  {SinWrite(pos, i) : i \in LoopIndices}
    \cup {CosWrite(pos, i) : i \in {j \in LoopIndices : j + 1 < EMBEDDING_DIM}}

\* the terms written to entry [pos, dim]
WritesTo(pos, dim) == {w.term : w \in {x \in RowWrites(pos) : x.col = dim}}

\* the rows examined, with every column of each
TablePositions == (0..MaxPos) \cup {MAX_SEQ_LENGTH - 1}

TableProbes ==
  {[fn |-> "position_encodings", pos |-> p, dim |-> d, applied |-> FALSE,
    writes |-> {}] : p \in TablePositions, d \in 0..(EMBEDDING_DIM - 1)}

apply_position_encodings ==
  /\ probe.fn = "position_encodings"
  /\ ~probe.applied
  /\ probe' = [probe EXCEPT !.applied = TRUE,
                            !.writes = WritesTo(probe.pos, probe.dim)]
  /\ UNCHANGED instance_vars

\* what initialize() hands to its caller
InitReturnIgnoresPipelineError(o) ==
  CASE o.kind \in {"ok", "no_pipeline"} -> "true"
    [] o.kind \in {"raised", "pool_raised"} -> "raised"
    [] OTHER -> "false"

InitReturn(o) ==
  CASE o.kind = "ok" -> "true"
    [] o.kind \in {"raised", "pool_raised"} -> "raised"
    [] OTHER -> "false"

initialize ==
  /\ pc = "idle"
  /\ init_result = "none"
  /\ \E o \in InitOutcomes :
       /\ pipelines' = pipelines \cup PipelinesStored(o)
       /\ shared_buffers' = shared_buffers \cup BuffersStored(o)
       /\ init_result' = InitReturn(o)
  /\ pool_bytes' = [b \in shared_buffers' |-> PoolBufferBytes(b)]
  /\ UNCHANGED <<op, pc, arg, stage, data, cb, disp, outs, log, ret, req, loop>>

  /\ UNCHANGED <<handler, probe>>
\* the per-request buffers whose memory the returned value r is built over:
\* np.frombuffer(buffer.contents().as_buffer(n)) wraps the buffer's memory
\* without copying it, and reshape and [:k] return views of that array
ViewedBuffers(r) ==
  CASE r.kind = "array" -> {"output"}
    [] r.kind = "pair" /\ r.indices.kind = "array" -> {"indices", "top_scores"}
    [] OTHER -> {}

\* ------------------------------------------------------------ shared pool
\* self.shared_buffers after a step of a request that left return value r:
\* process_batch, quantize_embeddings and ip_search read the dict and never
\* assign to it
PoolDroppedOnFailure(pool, r) == IF r.kind = "null" THEN {} ELSE pool

PoolAfterStep(pool, r) == pool

\* ------------------------------------------------------------ device calls
\* newBufferWithBytes/newBufferWithLength for `size` bytes: a buffer, a null
\* return (the API's way to report a failed allocation, and its answer to a
\* request for zero bytes), or an exception
AllocOutcomes(size) ==
  IF size = 0 THEN {"nil", "raise"} ELSE {"ok", "nil", "raise"}

\* any other device call made while encoding, and commit()
CallOutcomes == {"ok", "raise"}

\* waitUntilCompleted(): returns after the work ran, returns after the
\* device aborted the work (reported in the command buffer's status, which
\* the caller has to read), or raises
WaitOutcomes == {"ok", "exec_error", "raise"}

\* the input and output buffers that came back null
NilBuffers(a_in, a_out) ==
  (IF a_in = "nil" THEN {"input"} ELSE {}) \cup (IF a_out = "nil" THEN {"output"} ELSE {})

Encoded(name) == [ev |-> "dispatch", name |-> name]
Commit(name) == [ev |-> "commit", name |-> name]
Complete(name) == [ev |-> "complete", name |-> name]

\* ------------------------------------------------------------ process_batch
\* seq_length = min(len(input_data), MAX_SEQ_LENGTH)
SeqLength(x) == Min(x.len, MAX_SEQ_LENGTH)

\* number of elements input_data.tobytes() copies into the input buffer
Uploaded(x) == x.len

\* grid and thread-group sizes of the dispatch
\* threads_per_group and threadgroups of the 1D tiling over n elements when
\* the pipeline reports a limit of m threads per group
ThreadsPerGroupAtLeastOne(m, n) == IF Min(m, n) = 0 THEN 1 ELSE Min(m, n)

ThreadsPerGroup(m, n) == Min(m, n)

ThreadgroupsFloor(m, n) == n \div ThreadsPerGroup(m, n)

Threadgroups(m, n) == (n + ThreadsPerGroup(m, n) - 1) \div ThreadsPerGroup(m, n)

\* the 1D tiling for n elements under a limit of m threads per group
TilingProbes ==
  {[fn |-> "tiling", n |-> n, m |-> m, applied |-> FALSE, threads_per_group |-> 0,
    threadgroups |-> 0] : n \in 1..MaxElems, m \in 1..MaxThreads}

apply_tiling ==
  /\ probe.fn = "tiling"
  /\ ~probe.applied
  /\ probe' = [probe EXCEPT !.applied = TRUE,
                            !.threads_per_group = ThreadsPerGroup(probe.m, probe.n),
                            !.threadgroups = Threadgroups(probe.m, probe.n)]
  /\ UNCHANGED instance_vars

GridSize(name, x, m) ==
  IF name = "attention"
    THEN <<SeqLength(x), SeqLength(x)>>
    ELSE <<Threadgroups(m, x.len), 1>>

ThreadgroupSize(name, x, m) ==
  IF name = "attention"
    THEN <<ATTENTION_TILE, ATTENTION_TILE>>
    ELSE <<ThreadsPerGroup(m, x.len), 1>>

\* the pool buffers a stage binds besides its input and output
SharedBound(name) ==
  CASE name = "embed" -> {"position_encodings"}
    [] name = "infer" -> {"layer_norm_weights", "layer_norm_bias"}
    [] OTHER -> {}

\* encoding raises inside the try block: an allocation or encoder call
\* raises, a pool buffer is missing from the dict (KeyError), or the 1D
\* tiling divides by a thread-group size of zero
EncodeRaises(name, x, a_in, a_out, e, m) ==
  \/ a_in = "raise"
  \/ a_out = "raise"
  \/ e = "raise"
  \/ ~(SharedBound(name) \subseteq shared_buffers)
  \/ (name # "attention" /\ ThreadsPerGroup(m, x.len) = 0)

\* the byte lengths of the input and output buffers of a stage:
\* input_data.nbytes for both
InputBytes(x) == x.len * FLOAT32_BYTES

OutputBytesPerElement(x) == x.len

OutputBytes(x) == InputBytes(x)

Dispatch(name, x, m) ==
  [name |-> name, input |-> x, uploaded |-> Uploaded(x),
   in_bytes |-> InputBytes(x), out_bytes |-> OutputBytes(x),
   seq_length |-> SeqLength(x),
   grid |-> GridSize(name, x, m), tg |-> ThreadgroupSize(name, x, m)]

\* the array process_batch builds from the output buffer: the input's
\* element count, type and shape, holding what kernel `name` made of x
StageOutputTruncated(name, x) == Tensor(SeqLength(x), Append(x.hist, name))

StageOutput(name, x) == Tensor(x.len, Append(x.hist, name))

\* --------------------------------------------------------- process_sequence
\* what process_sequence returns when a stage returned None
SequenceAbortReturnsPartial(o) == IF Len(o) > 0 THEN o[Len(o)] ELSE NULL

SequenceAbort(o) == NULL

\* the array process_sequence hands to stage s + 1
NextStageInputReusesArg(a, o, s) == a

NextStageInput(a, o, s) == o[s].data

\* process_batch returned r to process_sequence
StageReturnsRetry(r) ==
  IF r = NULL /\ pc = "wait"
    THEN /\ pc' = "commit"
         /\ ret' = ret
         /\ UNCHANGED <<stage, data, outs>>
    ELSE IF r = NULL
    THEN /\ ret' = NULL
         /\ pc' = "done"
         /\ UNCHANGED <<stage, data, outs>>
    ELSE /\ outs' = Append(outs, r)
         /\ IF stage < Len(Stages)
              THEN /\ stage' = stage + 1
                   /\ data' = r.data
                   /\ pc' = "encode"
                   /\ ret' = ret
              ELSE /\ ret' = r
                   /\ pc' = "done"
                   /\ UNCHANGED <<stage, data>>

StageReturns(r) ==
  IF r = NULL
    THEN /\ ret' = SequenceAbort(outs)
         /\ pc' = "done"
         /\ UNCHANGED <<stage, data, outs>>
    ELSE /\ outs' = Append(outs, r)
         /\ IF stage < Len(Stages)
              THEN /\ stage' = stage + 1
                   /\ data' = NextStageInput(arg, outs', stage)
                   /\ pc' = "encode"
                   /\ ret' = ret
              ELSE /\ ret' = r
                   /\ pc' = "done"
                   /\ UNCHANGED <<stage, data>>

call_process_sequence ==
  /\ pc = "idle"
  /\ \E n \in SeqLens :
       /\ arg' = Tensor(n, <<>>)
       /\ data' = Tensor(n, <<>>)
  /\ op' = "process_sequence"
  /\ pc' = "encode"
  /\ stage' = 1
  /\ cb' = NoCB
  /\ disp' = NoDispatch
  /\ outs' = <<>>
  /\ log' = <<>>
  /\ ret' = PENDING
  /\ UNCHANGED <<pipelines, shared_buffers, pool_bytes, req, loop, init_result>>

  /\ UNCHANGED <<handler, probe>>
\* process_batch up to dispatchThreadgroups
stage_encode ==
  /\ op = "process_sequence"
  /\ pc = "encode"
  /\ LET name == Stages[stage] IN
       IF name \notin pipelines
         THEN /\ StageReturns(NULL)
              /\ UNCHANGED <<cb, disp, log>>
         ELSE \E a_in \in AllocOutcomes(data.len), a_out \in AllocOutcomes(data.len),
                 e \in CallOutcomes, m \in ThreadLimits :
                IF EncodeRaises(name, data, a_in, a_out, e, m)
                  THEN /\ StageReturns(NULL)
                       /\ UNCHANGED <<cb, disp, log>>
                  ELSE /\ cb' = [status |-> "encoded", nil |-> NilBuffers(a_in, a_out)]
                       /\ disp' = Append(disp, Dispatch(name, data, m))
                       /\ log' = Append(log, Encoded(name))
                       /\ pc' = "commit"
                       /\ UNCHANGED <<stage, data, outs, ret>>
  /\ shared_buffers' = PoolAfterStep(shared_buffers, ret')
  /\ UNCHANGED <<pipelines, pool_bytes, req, loop, init_result, op, arg>>

  /\ UNCHANGED <<handler, probe>>
\* endEncoding() and commit()
stage_commit ==
  /\ op = "process_sequence"
  /\ pc = "commit"
  /\ \E c \in CallOutcomes :
       IF c = "raise"
         THEN /\ StageReturns(NULL)
              /\ UNCHANGED <<cb, log>>
         ELSE /\ cb' = [cb EXCEPT !.status = "committed"]
              /\ log' = Append(log, Commit(Stages[stage]))
              /\ pc' = "wait"
              /\ UNCHANGED <<stage, data, outs, ret>>
  /\ shared_buffers' = PoolAfterStep(shared_buffers, ret')
  /\ UNCHANGED <<pipelines, pool_bytes, req, loop, init_result, op, arg, disp>>

  /\ UNCHANGED <<handler, probe>>
\* waitUntilCompleted(), then the read-back of the output buffer; the
\* command buffer's status is not read
stage_wait ==
  /\ op = "process_sequence"
  /\ pc = "wait"
  /\ \E w \in WaitOutcomes :
       IF w = "raise"
         THEN /\ StageReturns(NULL)
              /\ UNCHANGED <<cb, log>>
         ELSE LET ran == w = "ok" /\ InputsBound(cb) IN
              /\ cb' = [cb EXCEPT !.status = IF ran THEN "completed" ELSE "error"]
              /\ log' = Append(log, Complete(Stages[stage]))
              /\ StageReturns(
                   IF ~OutputsBound(cb) THEN NULL
                   ELSE IF ran THEN Array(StageOutput(Stages[stage], data))
                   ELSE Array(ZeroTensor(data.len)))
  /\ shared_buffers' = PoolAfterStep(shared_buffers, ret')
  /\ UNCHANGED <<pipelines, pool_bytes, req, loop, init_result, op, arg, disp>>

  /\ UNCHANGED <<handler, probe>>
\* ------------------------------------------------------ quantize_embeddings
\* the quantize_embeddings kernel on one value (in hundredths):
\* code = round(value / scale + zero_point)
QuantizeCode(v) ==
  (2 * v + 20 * SCALE_TENTHS * ZERO_POINT + 10 * SCALE_TENTHS) \div (20 * SCALE_TENTHS)

QuantizeKernel(e) == [i \in 1..Len(e) |-> QuantizeCode(e[i])]

Zeros(n) == [i \in 1..n |-> 0]

\* the two parameters quantize_embeddings binds at indices 2 and 3:
\* self.scale and self.zero_point, each as one float32
QuantizeConstantsAsDoubles ==
  [scale_tenths |-> SCALE_TENTHS, zero_point |-> ZERO_POINT, bytes |-> 2 * FLOAT32_BYTES]

QuantizeConstants ==
  [scale_tenths |-> SCALE_TENTHS, zero_point |-> ZERO_POINT, bytes |-> FLOAT32_BYTES]

\* the value (in hundredths) a code stands for: (code - zero_point) * scale
Dequantize(c) == (c - ZERO_POINT) * 10 * SCALE_TENTHS

\* the values (in hundredths) the codes 0..255 stand for, and all between
RepresentableValues == Dequantize(0)..Dequantize(MAX_CODE)

\* the dispatch quantize_embeddings encodes for embeddings e
QuantizeDispatch(e, m) ==
  [name |-> "quantize_embeddings", input |-> e, uploaded |-> Len(e),
   out_bytes |-> Len(e), constants |-> QuantizeConstants,
   grid |-> <<Threadgroups(m, Len(e)), 1>>,
   tg |-> <<ThreadsPerGroup(m, Len(e)), 1>>]

\* encoding raises inside the try block: an allocation or encoder call
\* raises, the pipeline is missing from the dict (KeyError), or the tiling
\* divides by zero
QuantizeEncodeRaises(e, a_in, a_out, c) ==
  \/ a_in = "raise"
  \/ a_out = "raise"
  \/ c = "raise"
  \/ "quantize_embeddings" \notin pipelines
  \/ Len(e) = 0

\* the array quantize_embeddings builds from the output buffer
QuantizeResult(out) == Array(out)

call_quantize_embeddings ==
  /\ pc = "idle"
  /\ \E e \in Embeddings : arg' = e
  /\ op' = "quantize_embeddings"
  /\ pc' = "encode"
  /\ stage' = 0
  /\ data' = NoTensor
  /\ cb' = NoCB
  /\ disp' = NoDispatch
  /\ outs' = <<>>
  /\ log' = <<>>
  /\ ret' = PENDING
  /\ UNCHANGED <<pipelines, shared_buffers, pool_bytes, req, loop, init_result>>

  /\ UNCHANGED <<handler, probe>>
quantize_encode ==
  /\ op = "quantize_embeddings"
  /\ pc = "encode"
  /\ \E a_in \in AllocOutcomes(Len(arg)), a_out \in AllocOutcomes(Len(arg)),
        c \in CallOutcomes, m \in ThreadLimits :
       IF QuantizeEncodeRaises(arg, a_in, a_out, c)
         THEN /\ ret' = NULL
              /\ pc' = "done"
              /\ UNCHANGED <<cb, disp, log>>
         ELSE /\ cb' = [status |-> "encoded", nil |-> NilBuffers(a_in, a_out)]
              /\ disp' = Append(disp, QuantizeDispatch(arg, m))
              /\ log' = Append(log, Encoded("quantize_embeddings"))
              /\ pc' = "commit"
              /\ ret' = ret
  /\ shared_buffers' = PoolAfterStep(shared_buffers, ret')
  /\ UNCHANGED <<pipelines, pool_bytes, req, loop, init_result, op, arg, stage, data,
                 outs>>

  /\ UNCHANGED <<handler, probe>>
quantize_commit ==
  /\ op = "quantize_embeddings"
  /\ pc = "commit"
  /\ \E c \in CallOutcomes :
       IF c = "raise"
         THEN /\ ret' = NULL
              /\ pc' = "done"
              /\ UNCHANGED <<cb, log>>
         ELSE /\ cb' = [cb EXCEPT !.status = "committed"]
              /\ log' = Append(log, Commit("quantize_embeddings"))
              /\ pc' = "wait"
              /\ ret' = ret
  /\ shared_buffers' = PoolAfterStep(shared_buffers, ret')
  /\ UNCHANGED <<pipelines, pool_bytes, req, loop, init_result, op, arg, stage, data,
                 disp, outs>>

  /\ UNCHANGED <<handler, probe>>
quantize_wait ==
  /\ op = "quantize_embeddings"
  /\ pc = "wait"
  /\ \E w \in WaitOutcomes :
       IF w = "raise"
         THEN /\ ret' = NULL
              /\ UNCHANGED <<cb, log>>
         ELSE LET ran == w = "ok" /\ InputsBound(cb) IN
              /\ cb' = [cb EXCEPT !.status = IF ran THEN "completed" ELSE "error"]
              /\ log' = Append(log, Complete("quantize_embeddings"))
              /\ ret' = IF ~OutputsBound(cb) THEN NULL
                        ELSE IF ran THEN QuantizeResult(QuantizeKernel(arg))
                        ELSE QuantizeResult(Zeros(Len(arg)))
  /\ pc' = "done"
  /\ shared_buffers' = PoolAfterStep(shared_buffers, ret')
  /\ UNCHANGED <<pipelines, pool_bytes, req, loop, init_result, op, arg, stage, data,
                 disp, outs>>

  /\ UNCHANGED <<handler, probe>>
\* quantize_embeddings applied to one value of the representable range
QuantizeProbes ==
  {[fn |-> "quantize", v |-> v, applied |-> FALSE, code |-> 0, back |-> 0,
    constants |-> <<>>] : v \in RepresentableValues}

apply_quantize ==
  /\ probe.fn = "quantize"
  /\ ~probe.applied
  /\ \E m \in ThreadLimits :
       LET d == QuantizeDispatch(<<probe.v>>, m)
           out == QuantizeKernel(d.input)
       IN  probe' = [probe EXCEPT !.applied = TRUE, !.code = out[1],
                                  !.back = Dequantize(out[1]),
                                  !.constants = d.constants]
  /\ UNCHANGED instance_vars

\* ---------------------------------------------------------------- ip_search
\* search inputs: the quantized axis-aligned unit vectors of dimension Dim as
\* database rows (each row at most once, in any order), and two queries
UnitVector(i) == [d \in 1..Dim |-> IF d = i THEN 100 ELSE 0]

MixedVector == [d \in 1..Dim |-> IF d = 1 THEN 100 ELSE IF d = 2 THEN 50 ELSE 0]

DbRows == {QuantizeKernel(UnitVector(i)) : i \in 1..Dim}

Queries == {QuantizeKernel(UnitVector(1)), QuantizeKernel(MixedVector)}

\* queries whose length is not the row length of the database: one element
\* short, one element long
MismatchedQueries ==
  {SubSeq(QuantizeKernel(UnitVector(1)), 1, Dim - 1),
   Append(QuantizeKernel(MixedVector), ZERO_POINT)}

\* what the bytes after the end of the query buffer may hold
OutOfBoundsBytes == {0, MAX_CODE}

\* the dim elements the score kernel reads through the query pointer: the
\* query's own elements and, past its end, whatever the memory holds
ReadableQueries(q, dim) ==
  {[i \in 1..dim |-> IF i <= Len(q) THEN q[i] ELSE pad[i]] :
     pad \in [1..dim -> OutOfBoundsBytes]}

Databases ==
  {db \in SeqsUpTo(DbRows, MaxN) : \A i, j \in 1..Len(db) : db[i] = db[j] => i = j}

Pair(i, s) == [kind |-> "pair", indices |-> i, scores |-> s]

\* the per-request buffers of ip_search and their byte sizes
SearchBufferBytes(a) ==
  [query |-> Len(a.query),
   database |-> Len(a.database) * Dim,
   scores |-> Len(a.database) * 4,
   indices |-> a.k * 4,
   top_scores |-> a.k * 4]

\* the five allocations of one call: one of them raises, or each returns a
\* buffer or null: null for every request of zero bytes and for at most one
\* other request
SearchAllocOutcomes(a) ==
  LET bytes == SearchBufferBytes(a)
      empty == {b \in DOMAIN bytes : bytes[b] = 0}
  IN  {[raised |-> TRUE, nil |-> {}], [raised |-> FALSE, nil |-> empty]}
        \cup {[raised |-> FALSE, nil |-> empty \cup {b}] : b \in DOMAIN bytes}

\* the score dispatch: one thread per database row, 1D tiling over N
ScoreDispatch(a, m) ==
  [name |-> "ip_search", n |-> Len(a.database), dim |-> Dim, k |-> 0,
   bytes |-> SearchBufferBytes(a),
   grid |-> <<Threadgroups(m, Len(a.database)), 1>>,
   tg |-> <<ThreadsPerGroup(m, Len(a.database)), 1>>]

\* the top-K dispatch: one thread-group of min(N, 256) threads
TopKDispatch(a) ==
  [name |-> "topk_reduce", n |-> Len(a.database), dim |-> 0, k |-> a.k,
   bytes |-> SearchBufferBytes(a),
   grid |-> <<1, 1>>,
   tg |-> <<Min(Len(a.database), TOPK_GROUP), 1>>]

\* the encoders ip_search puts into its command buffer, in order
SearchEncodersTopKFirst(a, m) == <<TopKDispatch(a), ScoreDispatch(a, m)>>

SearchEncoders(a, m) == <<ScoreDispatch(a, m), TopKDispatch(a)>>

\* encoding raises inside the try block
SearchEncodeRaises(a, al, c) ==
  \/ al.raised
  \/ c = "raise"
  \/ ~({"ip_search", "topk_reduce"} \subseteq pipelines)
  \/ Len(a.database) = 0

\* the zero-filled scores, indices and top-scores buffers before any kernel ran
SearchMemory(a) ==
  [scores |-> Zeros(Len(a.database)), indices |-> Zeros(a.k), top_scores |-> Zeros(a.k)]

RECURSIVE InnerProduct(_, _, _)
InnerProduct(q, r, dim) ==
  IF dim = 0 THEN 0 ELSE q[dim] * r[dim] + InnerProduct(q, r, dim - 1)

\* the ip_search kernel: the raw inner product of the query with every row
ScoreKernel(a, n, dim) == [i \in 1..n |-> InnerProduct(a.query, a.database[i], dim)]

\* the topk_reduce kernel: k times, take a row of largest score among the rows
\* not taken yet; rows of equal score in either order
RECURSIVE TopKSelect(_, _, _)
TopKSelect(scores, remaining, k) ==
  IF k = 0 \/ remaining = {} THEN {<<>>}
  ELSE LET best == {i \in remaining : \A j \in remaining : scores[j] <= scores[i]}
       IN  UNION {{<<i>> \o t : t \in TopKSelect(scores, remaining \ {i}, k - 1)} :
                    i \in best}

\* the memory states one encoder can leave behind
RunKernel(d, a, mem) ==
  IF d.name = "ip_search"
    THEN {[mem EXCEPT !.scores = ScoreKernel(a, d.n, d.dim)]}
    ELSE {[mem EXCEPT
             !.indices = [j \in 1..Len(mem.indices) |->
                            IF j <= Len(sel) THEN sel[j] - 1 ELSE mem.indices[j]],
             !.top_scores = [j \in 1..Len(mem.top_scores) |->
                            IF j <= Len(sel) THEN mem.scores[sel[j]] ELSE mem.top_scores[j]]] :
            sel \in TopKSelect(mem.scores, 1..d.n, d.k)}

\* the encoders of a command buffer run one after the other
RECURSIVE RunEncoders(_, _, _)
RunEncoders(ds, a, mems) ==
  IF ds = <<>> THEN mems
  ELSE RunEncoders(Tail(ds), a, UNION {RunKernel(Head(ds), a, mem) : mem \in mems})

Take(q, k) == SubSeq(q, 1, Min(k, Len(q)))

\* the (indices[:k], scores[:k]) pair read back after the wait
ReadBackFromScratch(mem, k) == Pair(Array(Take(mem.indices, k)), Array(Take(mem.scores, k)))

ReadBack(mem, k) == Pair(Array(Take(mem.indices, k)), Array(Take(mem.top_scores, k)))

\* the except branch: return None, None
SearchFailure == Pair(NULL, NULL)

call_ip_search ==
  /\ pc = "idle"
  /\ \E q \in Queries, db \in Databases, k \in 0..(MaxN + 1) :
       arg' = [query |-> q, database |-> db, k |-> k]
  /\ op' = "ip_search"
  /\ pc' = "encode"
  /\ stage' = 0
  /\ data' = NoTensor
  /\ cb' = NoCB
  /\ disp' = NoDispatch
  /\ outs' = <<>>
  /\ log' = <<>>
  /\ ret' = PENDING
  /\ UNCHANGED <<pipelines, shared_buffers, pool_bytes, req, loop, init_result>>

  /\ UNCHANGED <<handler, probe>>
\* ip_search called with a query that does not fit the database rows
call_ip_search_mismatched ==
  /\ pc = "idle"
  /\ \E q \in MismatchedQueries, db \in Databases, k \in 0..(MaxN + 1) :
       arg' = [query |-> q, database |-> db, k |-> k]
  /\ op' = "ip_search"
  /\ pc' = "encode"
  /\ stage' = 0
  /\ data' = NoTensor
  /\ cb' = NoCB
  /\ disp' = NoDispatch
  /\ outs' = <<>>
  /\ log' = <<>>
  /\ ret' = PENDING
  /\ UNCHANGED <<pipelines, shared_buffers, pool_bytes, req, loop, init_result>>
  /\ UNCHANGED <<handler, probe>>

\* the five allocations and the two encoders
search_encode ==
  /\ op = "ip_search"
  /\ pc = "encode"
  /\ \E al \in SearchAllocOutcomes(arg), c \in CallOutcomes, m \in ThreadLimits :
       IF SearchEncodeRaises(arg, al, c)
         THEN /\ ret' = SearchFailure
              /\ pc' = "done"
              /\ UNCHANGED <<cb, disp, log>>
         ELSE /\ cb' = [status |-> "encoded", nil |-> al.nil]
              /\ disp' = SearchEncoders(arg, m)
              /\ log' = [i \in 1..Len(disp') |-> Encoded(disp'[i].name)]
              /\ pc' = "commit"
              /\ ret' = ret
  /\ shared_buffers' = PoolAfterStep(shared_buffers, ret')
  /\ UNCHANGED <<pipelines, pool_bytes, req, loop, init_result, op, arg, stage, data,
                 outs>>

  /\ UNCHANGED <<handler, probe>>
search_commit ==
  /\ op = "ip_search"
  /\ pc = "commit"
  /\ \E c \in CallOutcomes :
       IF c = "raise"
         THEN /\ ret' = SearchFailure
              /\ pc' = "done"
              /\ UNCHANGED <<cb, log>>
         ELSE /\ cb' = [cb EXCEPT !.status = "committed"]
              /\ log' = Append(log, Commit("ip_search"))
              /\ pc' = "wait"
              /\ ret' = ret
  /\ shared_buffers' = PoolAfterStep(shared_buffers, ret')
  /\ UNCHANGED <<pipelines, pool_bytes, req, loop, init_result, op, arg, stage, data,
                 disp, outs>>

  /\ UNCHANGED <<handler, probe>>
\* waitUntilCompleted(), then the read-back of both result buffers; the
\* command buffer's status is not read
search_wait ==
  /\ op = "ip_search"
  /\ pc = "wait"
  /\ \E w \in WaitOutcomes :
       IF w = "raise"
         THEN /\ ret' = SearchFailure
              /\ UNCHANGED <<cb, log>>
         ELSE LET ran == w = "ok" /\ InputsBound(cb) IN
              /\ cb' = [cb EXCEPT !.status = IF ran THEN "completed" ELSE "error"]
              /\ log' = Append(log, Complete("ip_search"))
              /\ IF ~OutputsBound(cb) THEN ret' = SearchFailure
                 ELSE IF ran
                   THEN \E q \in ReadableQueries(arg.query, Dim) :
                        \E mem \in RunEncoders(disp, [arg EXCEPT !.query = q],
                                                {SearchMemory(arg)}) :
                          ret' = ReadBack(mem, arg.k)
                   ELSE ret' = ReadBack(SearchMemory(arg), arg.k)
  /\ pc' = "done"
  /\ shared_buffers' = PoolAfterStep(shared_buffers, ret')
  /\ UNCHANGED <<pipelines, pool_bytes, req, loop, init_result, op, arg, stage, data,
                 disp, outs>>

  /\ UNCHANGED <<handler, probe>>
\* the caller has taken the return value; the instance is ready for the
\* next call
return_to_caller ==
  /\ pc = "done"
  /\ op' = "idle"
  /\ pc' = "idle"
  /\ arg' = NoTensor
  /\ stage' = 0
  /\ data' = NoTensor
  /\ cb' = NoCB
  /\ disp' = NoDispatch
  /\ outs' = <<>>
  /\ log' = <<>>
  /\ ret' = PENDING
  /\ UNCHANGED <<pipelines, shared_buffers, pool_bytes, req, loop, init_result>>

  /\ UNCHANGED <<handler, probe>>
\* --------------------------------------------------------------- API server
\* the endpoints that reach the MetalCompute instance of the server
ApiKinds == {"completion", "stream", "embedding", "search"}

\* the number of MetalCompute calls a handler makes when none fails: one
\* process_sequence per completion, one per chunk of a stream, one
\* process_sequence and an optional quantize_embeddings per embedding, and
\* none for a search, which finds no 'embedding_database' in the pool
ApiCalls(kind) ==
  CASE kind = "completion" -> {1}
    [] kind = "stream" -> 0..MaxChunks
    [] kind = "embedding" -> {1, 2}
    [] OTHER -> {0}

\* the task the event loop runs while request r is inside a MetalCompute
\* call: the call is an ordinary synchronous call made from a coroutine,
\* so the loop stays with r until the call returns
LoopHandedToExecutor(r) == 0

LoopDuringCall(r) == r

\* the requests inside a MetalCompute call, and those whose command buffer
\* is committed and not yet completed
InMetalCall == {r \in Requests : req[r].pc \in {"call", "inflight"}}

CommandBuffersInFlight == {r \in Requests : req[r].pc = "inflight"}

\* an HTTP request arrives at a started server and its task is scheduled
api_receive ==
  /\ init_result = "true"
  /\ \E r \in Requests, k \in ApiKinds :
       /\ req[r].pc = "new"
       /\ \E n \in ApiCalls(k) :
            req' = [req EXCEPT ![r] = [kind |-> k, pc |-> "queued", calls |-> n]]
  /\ UNCHANGED <<pipelines, shared_buffers, pool_bytes, init_result, op, pc, arg,
                 stage, data, cb, disp, outs, log, ret, loop>>

  /\ UNCHANGED <<handler, probe>>
\* the idle event loop starts or resumes the task of a request
api_run ==
  /\ loop = 0
  /\ \E r \in Requests :
       /\ req[r].pc \in {"queued", "yielded"}
       /\ req' = [req EXCEPT ![r].pc = "handler"]
       /\ loop' = r
  /\ UNCHANGED <<pipelines, shared_buffers, pool_bytes, init_result, op, pc, arg,
                 stage, data, cb, disp, outs, log, ret>>

  /\ UNCHANGED <<handler, probe>>
\* the handler calls process_sequence or quantize_embeddings
api_call ==
  /\ \E r \in Requests :
       /\ loop = r
       /\ req[r].pc = "handler"
       /\ req[r].calls > 0
       /\ req' = [req EXCEPT ![r].pc = "call"]
       /\ loop' = LoopDuringCall(r)
  /\ UNCHANGED <<pipelines, shared_buffers, pool_bytes, init_result, op, pc, arg,
                 stage, data, cb, disp, outs, log, ret>>

  /\ UNCHANGED <<handler, probe>>
\* the call commits a command buffer
api_commit ==
  /\ \E r \in Requests :
       /\ req[r].pc = "call"
       /\ req' = [req EXCEPT ![r].pc = "inflight"]
  /\ UNCHANGED <<pipelines, shared_buffers, pool_bytes, init_result, op, pc, arg,
                 stage, data, cb, disp, outs, log, ret, loop>>

  /\ UNCHANGED <<handler, probe>>
\* the call returns: None makes the handler raise, a chunk of a stream is
\* yielded to the response, anything else continues the handler
api_return ==
  /\ \E r \in Requests, failed \in BOOLEAN :
       /\ loop = LoopDuringCall(r)
       /\ req[r].pc \in {"call", "inflight"}
       /\ req[r].pc = "call" => failed
       /\ IF failed
            THEN /\ req' = [req EXCEPT ![r].pc = "responded", ![r].calls = 0]
                 /\ loop' = 0
            ELSE IF req[r].kind = "stream"
            THEN /\ req' = [req EXCEPT ![r].pc = "yielded", ![r].calls = @ - 1]
                 /\ loop' = 0
            ELSE /\ req' = [req EXCEPT ![r].pc = "handler", ![r].calls = @ - 1]
                 /\ loop' = r
  /\ UNCHANGED <<pipelines, shared_buffers, pool_bytes, init_result, op, pc, arg,
                 stage, data, cb, disp, outs, log, ret>>

  /\ UNCHANGED <<handler, probe>>
\* the handler has no call left and the response is sent
api_respond ==
  /\ \E r \in Requests :
       /\ loop = r
       /\ req[r].pc = "handler"
       /\ req[r].calls = 0
       /\ req' = [req EXCEPT ![r].pc = "responded"]
       /\ loop' = 0
  /\ UNCHANGED <<pipelines, shared_buffers, pool_bytes, init_result, op, pc, arg,
                 stage, data, cb, disp, outs, log, ret>>

  /\ UNCHANGED <<handler, probe>>
\* the connection is ready for its next request
api_close ==
  /\ \E r \in Requests :
       /\ req[r].pc = "responded"
       /\ req' = [req EXCEPT ![r] = NoRequest]
  /\ UNCHANGED <<pipelines, shared_buffers, pool_bytes, init_result, op, pc, arg,
                 stage, data, cb, disp, outs, log, ret, loop>>

  /\ UNCHANGED <<handler, probe>>
\* ------------------------------------------------- API server: one request
\* the number of tokens tokenizer.encode makes of the prompt or text
PromptLens ==
  (0..MaxLen)
    \cup {c * CHUNK_SIZE + d : c \in 1..MaxChunks, d \in {-1, 0, 1}}
    \cup ((MAX_SEQ_LENGTH - 1)..(MAX_SEQ_LENGTH + MaxOver))

\* tokens[:MAX_SEQ_LENGTH] when there are more than MAX_SEQ_LENGTH tokens
TruncateNothing(n) == n

Truncate(n) == IF n > MAX_SEQ_LENGTH THEN MAX_SEQ_LENGTH ELSE n

\* len(tokens[i:i + chunk_size])
ChunkLenFull(tokens, i) == CHUNK_SIZE

ChunkLen(tokens, i) == Min(CHUNK_SIZE, tokens - i)

\* the messages a stream yields
ChunkMessage == [finish_reason |-> "none"]

StopMessage == [finish_reason |-> "stop"]

\* the status of the response when the handler's except clause has caught
\* an exception of any kind, HTTPException included
StatusAfterException(raised) == 500

\* the lookup of the database in vector_search
DatabaseLoaded == "embedding_database" \in shared_buffers

\* a request arrives at a started server; its text is tokenized and cut
handler_receive ==
  /\ init_result = "true"
  /\ pc = "idle"
  /\ handler.pc = "idle"
  /\ \E k \in ApiKinds, n \in PromptLens, q \in BOOLEAN :
       /\ k # "embedding" => q = FALSE
       /\ k = "search" => n = 0
       /\ handler' = [kind |-> k, pc |-> "tokenized", prompt |-> n,
                      tokens |-> Truncate(n), quantize |-> q, offset |-> 0,
                      passed |-> <<>>, yielded |-> <<>>, status |-> 0,
                      error |-> FALSE, searched |-> FALSE]
  /\ UNCHANGED <<pipelines, shared_buffers, pool_bytes, init_result, op, pc, arg,
                 stage, data, cb, disp, outs, log, ret, req, loop, probe>>

\* self.metal.process_sequence(input_data): on all tokens, or on the next
\* chunk of a stream
handler_process_sequence ==
  /\ handler.pc = "tokenized"
  /\ handler.kind \in {"completion", "embedding", "stream"}
  /\ handler.kind = "stream" => handler.offset < handler.tokens
  /\ LET n == IF handler.kind = "stream"
                THEN ChunkLen(handler.tokens, handler.offset)
                ELSE handler.tokens
     IN  /\ handler' = [handler EXCEPT
                          !.pc = "calling",
                          !.passed = Append(@, [start |-> handler.offset, len |-> n,
                                                after |-> Len(handler.yielded)])]
         /\ arg' = Tensor(n, <<>>)
         /\ data' = Tensor(n, <<>>)
  /\ op' = "process_sequence"
  /\ pc' = "encode"
  /\ stage' = 1
  /\ cb' = NoCB
  /\ disp' = NoDispatch
  /\ outs' = <<>>
  /\ log' = <<>>
  /\ ret' = PENDING
  /\ UNCHANGED <<pipelines, shared_buffers, pool_bytes, init_result, req, loop, probe>>

\* process_sequence has returned: None raises RuntimeError, a result is
\* yielded (stream), returned (completion) or kept for the quantizer
handler_result ==
  /\ handler.pc = "calling"
  /\ op = "process_sequence"
  /\ pc = "done"
  /\ handler' =
       IF ret = NULL
         THEN [handler EXCEPT
                 !.pc = "responded", !.error = TRUE,
                 !.status = IF handler.kind = "stream" THEN 200
                            ELSE StatusAfterException("RuntimeError")]
       ELSE IF handler.kind = "stream"
         THEN [handler EXCEPT
                 !.pc = "tokenized",
                 !.offset = @ + CHUNK_SIZE,
                 !.yielded = Append(@, ChunkMessage)]
       ELSE IF handler.kind = "embedding" /\ handler.quantize
         THEN [handler EXCEPT !.pc = "quantizing"]
       ELSE [handler EXCEPT !.pc = "responded", !.status = 200]
  /\ op' = "idle"
  /\ pc' = "idle"
  /\ arg' = NoTensor
  /\ stage' = 0
  /\ data' = NoTensor
  /\ cb' = NoCB
  /\ disp' = NoDispatch
  /\ outs' = <<>>
  /\ log' = <<>>
  /\ ret' = PENDING
  /\ UNCHANGED <<pipelines, shared_buffers, pool_bytes, init_result, req, loop, probe>>

\* the loop of the stream is over: the final message
handler_stop ==
  /\ handler.pc = "tokenized"
  /\ handler.kind = "stream"
  /\ handler.offset >= handler.tokens
  /\ handler' = [handler EXCEPT !.pc = "responded", !.status = 200,
                                !.yielded = Append(@, StopMessage)]
  /\ UNCHANGED <<pipelines, shared_buffers, pool_bytes, init_result, op, pc, arg,
                 stage, data, cb, disp, outs, log, ret, req, loop, probe>>

\* self.metal.quantize_embeddings(embedding) returns an array or None
handler_quantize ==
  /\ handler.pc = "quantizing"
  /\ \E r \in {"array", "null"} :
       handler' = IF r = "null"
                    THEN [handler EXCEPT !.pc = "responded", !.error = TRUE,
                                         !.status = StatusAfterException("RuntimeError")]
                    ELSE [handler EXCEPT !.pc = "responded", !.status = 200]
  /\ UNCHANGED <<pipelines, shared_buffers, pool_bytes, init_result, op, pc, arg,
                 stage, data, cb, disp, outs, log, ret, req, loop, probe>>

\* vector_search: without a database HTTPException(400) is raised inside
\* the try block, caught by `except Exception`, raised again, and caught
\* by the handler's `except Exception`
handler_search ==
  /\ handler.pc = "tokenized"
  /\ handler.kind = "search"
  /\ IF DatabaseLoaded
       THEN \E r \in {"pair", "null"} :
              handler' = IF r = "null"
                           THEN [handler EXCEPT
                                   !.pc = "responded", !.error = TRUE, !.searched = TRUE,
                                   !.status = StatusAfterException("RuntimeError")]
                           ELSE [handler EXCEPT !.pc = "responded", !.searched = TRUE,
                                                !.status = 200]
       ELSE handler' = [handler EXCEPT
                          !.pc = "responded", !.error = TRUE,
                          !.status = StatusAfterException("HTTPException(400)")]
  /\ UNCHANGED <<pipelines, shared_buffers, pool_bytes, init_result, op, pc, arg,
                 stage, data, cb, disp, outs, log, ret, req, loop, probe>>

\* the response is out; the server takes the next request
handler_close ==
  /\ handler.pc = "responded"
  /\ handler' = NoHandler
  /\ UNCHANGED <<pipelines, shared_buffers, pool_bytes, init_result, op, pc, arg,
                 stage, data, cb, disp, outs, log, ret, req, loop, probe>>

Next ==
  \/ initialize
  \/ call_process_sequence
  \/ stage_encode
  \/ stage_commit
  \/ stage_wait
  \/ call_quantize_embeddings
  \/ quantize_encode
  \/ quantize_commit
  \/ quantize_wait
  \/ call_ip_search
  \/ search_encode
  \/ search_commit
  \/ search_wait
  \/ return_to_caller

Spec == Init /\ [][Next]_vars

\* one instance used for one operation only
NextSequence ==
  \/ initialize
  \/ call_process_sequence
  \/ stage_encode
  \/ stage_commit
  \/ stage_wait
  \/ return_to_caller

SpecSequence == Init /\ [][NextSequence]_vars

NextQuantize ==
  \/ initialize
  \/ call_quantize_embeddings
  \/ quantize_encode
  \/ quantize_commit
  \/ quantize_wait
  \/ return_to_caller

SpecQuantize == Init /\ [][NextQuantize]_vars

NextSearch ==
  \/ initialize
  \/ call_ip_search
  \/ search_encode
  \/ search_commit
  \/ search_wait
  \/ return_to_caller

SpecSearch == Init /\ [][NextSearch]_vars

\* searches with queries of the wrong length
NextSearchMismatched ==
  \/ initialize
  \/ call_ip_search_mismatched
  \/ search_encode
  \/ search_commit
  \/ search_wait
  \/ return_to_caller

SpecSearchMismatched == Init /\ [][NextSearchMismatched]_vars

\* the API server handling one request at a time from tokens to response
NextHandler ==
  \/ initialize
  \/ handler_receive
  \/ handler_process_sequence
  \/ stage_encode
  \/ stage_commit
  \/ stage_wait
  \/ handler_result
  \/ handler_stop
  \/ handler_quantize
  \/ handler_search
  \/ handler_close

SpecHandler == Init /\ [][NextHandler]_vars

\* the 1D tiling arithmetic on every element count and thread limit
InitTiling == InitInstance /\ probe \in TilingProbes

NextTiling == apply_tiling

SpecTiling == InitTiling /\ [][NextTiling]_vars

\* the positional-encoding table, entry by entry
InitTable == InitInstance /\ probe \in TableProbes

NextTable == apply_position_encodings

SpecTable == InitTable /\ [][NextTable]_vars

\* the quantizer on every value of its range
InitRoundTrip == InitInstance /\ probe \in QuantizeProbes

NextRoundTrip == apply_quantize

SpecRoundTrip == InitRoundTrip /\ [][NextRoundTrip]_vars

\* the API server: startup awaits initialize(), then requests are served
NextApi ==
  \/ initialize
  \/ api_receive
  \/ api_run
  \/ api_call
  \/ api_commit
  \/ api_return
  \/ api_respond
  \/ api_close

SpecApi == Init /\ [][NextApi]_vars

\* ==================================================================== claims
\* the stages dispatched so far in this call
Dispatched == {disp[i].name : i \in 1..Len(disp)}

\* command buffers committed and not yet waited to completion
InFlight ==
  Cardinality({i \in 1..Len(log) : log[i].ev = "commit"})
    - Cardinality({i \in 1..Len(log) : log[i].ev = "complete"})

\* the i-th event of a process_sequence call in which every stage is encoded,
\* committed and completed before the next one is encoded
SequenceEvent(i) ==
  LET name == Stages[((i - 1) \div 3) + 1]
  IN  CASE (i - 1) % 3 = 0 -> Encoded(name)
        [] (i - 1) % 3 = 1 -> Commit(name)
        [] OTHER -> Complete(name)

\* C1: when a stage of process_sequence returns no result, process_sequence
\* returns null, no later stage has been dispatched, and a non-null return is
\* the output of the last stage, never an intermediate one.
C1_StageFailureAborts ==
  (op = "process_sequence" /\ pc = "done") =>
    /\ Len(outs) < Len(Stages) =>
         /\ ret = NULL
         /\ Dispatched \subseteq {Stages[j] : j \in 1..(Len(outs) + 1)}
    /\ ret # NULL => (Len(outs) = Len(Stages) /\ ret = outs[Len(Stages)])

\* attention was dispatched and failed: feedforward and infer never ran
C1_Witness ==
  /\ op = "process_sequence" /\ pc = "done"
  /\ Len(outs) = 1
  /\ Dispatched = {"embed", "attention"}
  /\ ret = NULL

\* C2: the stages are submitted in the order embed, attention, feedforward,
\* infer; a stage is encoded only after the one before it was committed and
\* waited for; its input is exactly what the stage before it returned; at
\* most one command buffer of the call is in flight.
C2_StagesSequential ==
  op = "process_sequence" =>
    /\ \A i \in 1..Len(disp) : disp[i].name = Stages[i]
    /\ \A i \in 1..Len(log) : log[i] = SequenceEvent(i)
    /\ \A i \in 2..Len(disp) :
         /\ Len(log) >= 3 * (i - 1)
         /\ outs[i - 1].kind = "array"
         /\ disp[i].input = outs[i - 1].data
    /\ InFlight \in {0, 1}

\* all four stages ran and the call returned the output of infer
C2_Witness ==
  /\ op = "process_sequence" /\ pc = "done"
  /\ Len(disp) = Len(Stages)
  /\ ret = Array(Tensor(arg.len, Stages))

\* C3: after initialize() returned false, the pipelines map and the shared
\* buffer pool are both empty.
C3_InitializeFailsAtomically ==
  init_result = "false" => (pipelines = {} /\ shared_buffers = {})

\* the elements of the input a 1D dispatch has a thread for
CoveredElements(d) == Min(d.grid[1] * d.tg[1], d.input.len)

\* C4: every stage uploads and dispatches at most the first MAX_SEQ_LENGTH
\* elements of its input.
C4_TruncatedToMaxSeqLength ==
  op = "process_sequence" =>
    \A i \in 1..Len(disp) :
      /\ disp[i].uploaded <= MAX_SEQ_LENGTH
      /\ disp[i].name # "attention" => CoveredElements(disp[i]) <= MAX_SEQ_LENGTH

\* the search call is over
SearchDone == op = "ip_search" /\ pc = "done"

\* the search call returned arrays after its command buffer ran to the end
\* without a device error
SearchCompleted == SearchDone /\ cb.status = "completed" /\ ret # SearchFailure

\* the inner product of the query with database row r (1-based)
RowScore(r) == InnerProduct(arg.query, arg.database[r], Dim)

\* C5: the number of (index, score) pairs a search returns never exceeds the
\* database size N, also when k > N.
C5_TopKWithinDatabase ==
  (SearchDone /\ ret # SearchFailure) =>
    /\ Len(ret.indices.data) <= Len(arg.database)
    /\ Len(ret.scores.data) <= Len(arg.database)

\* C6: the scores of a successful search are in non-increasing order.
C6_ScoresNonIncreasing ==
  SearchCompleted =>
    \A i \in 1..(Len(ret.scores.data) - 1) :
      ret.scores.data[i] >= ret.scores.data[i + 1]

\* a search whose database holds a lower-scoring row before a higher-scoring
\* one returned the higher score first
C6_Witness ==
  /\ SearchCompleted
  /\ Len(arg.database) >= 2 /\ arg.k >= 2
  /\ RowScore(1) < RowScore(2)
  /\ ret.scores.data[1] > ret.scores.data[2]

\* C7: the k returned indices are pairwise distinct and each is < N; with
\* k = N they are a permutation of 0..N-1.
C7_IndicesArePermutation ==
  SearchCompleted =>
    LET ix == ret.indices.data
        n == Len(arg.database)
    IN  /\ \A i \in 1..Len(ix) : ix[i] \in 0..(n - 1)
        /\ \A i, j \in 1..Len(ix) : ix[i] = ix[j] => i = j
        /\ arg.k = n => {ix[i] : i \in 1..Len(ix)} = 0..(n - 1)

\* the database of all Dim axis-aligned unit vectors, axis 0 first
AxisDatabase == [i \in 1..Dim |-> QuantizeKernel(UnitVector(i))]

\* C8: for 1 <= k <= N a search returns k rows, each returned score is the
\* inner product of the query with the row at the returned index, and no row
\* left out has a larger inner product than a returned one; for the
\* axis-aligned unit vectors and the axis-0 query, k = 1 returns index 0.
C8_TopKByInnerProduct ==
  (SearchCompleted /\ arg.k >= 1 /\ arg.k <= Len(arg.database)) =>
    LET ix == ret.indices.data
        sc == ret.scores.data
        returned == {ix[i] + 1 : i \in 1..Len(ix)}
    IN  /\ Len(ix) = arg.k /\ Len(sc) = arg.k
        /\ \A i \in 1..Len(ix) :
             /\ ix[i] + 1 \in 1..Len(arg.database)
             /\ sc[i] = RowScore(ix[i] + 1)
        /\ \A r \in (1..Len(arg.database)) \ returned :
             \A i \in 1..Len(sc) : RowScore(r) <= sc[i]
        /\ (arg.database = AxisDatabase /\ arg.query = AxisDatabase[1] /\ arg.k = 1)
             => ix = <<0>>

\* the axis-aligned scenario ran, and so did a search that had to leave rows out
C8_Witness ==
  /\ SearchCompleted
  /\ arg.database = AxisDatabase
  /\ arg.query = AxisDatabase[1]
  /\ arg.k = 1
  /\ ret.indices.data = <<0>>

\* C9: a search returns two arrays of the same length or (null, null), never
\* one null component; k = 0 and a failed allocation yield (null, null).
C9_PairOrFailure ==
  SearchDone =>
    /\ (ret.indices = NULL) <=> (ret.scores = NULL)
    /\ ret # SearchFailure => Len(ret.indices.data) = Len(ret.scores.data)
    /\ (arg.k = 0 \/ cb.nil # {}) => ret = SearchFailure

\* the quantizer call is over
QuantizeDone == op = "quantize_embeddings" /\ pc = "done"

\* C10: quantize_embeddings returns one code per input element or null; an
\* empty input, a failed allocation and a failed dispatch yield null.
C10_QuantizeAllOrNull ==
  QuantizeDone =>
    /\ ret # NULL => (ret.kind = "array" /\ Len(ret.data) = Len(arg))
    /\ (Len(arg) = 0 \/ cb.nil # {} \/ cb.status = "error") => ret = NULL

\* C11: process_sequence on an input of zero elements returns null on every
\* call, and no command buffer is committed for any stage: the call fails
\* in the first stage before anything is dispatched.
C11_EmptySequenceReturnsNull ==
  (op = "process_sequence" /\ arg.len = 0) =>
    /\ \A i \in 1..Len(log) : log[i].ev # "commit"
    /\ disp = <<>>
    /\ cb.status = "none"
    /\ pc = "done" => ret = NULL

\* an empty input was processed by an initialized instance and returned
C11_Witness ==
  /\ op = "process_sequence"
  /\ arg.len = 0
  /\ init_result = "true"
  /\ pc = "done"
  /\ ret = NULL

\* C12: a device error raised inside initialize, process_sequence,
\* quantize_embeddings or ip_search never reaches the caller: every call
\* that ended handed back a value, initialize() true or false and the
\* others an array, a pair or their failure value.
C12_NoErrorPropagates ==
  /\ init_result \in {"none", "true", "false"}
  /\ pc = "done" => ret.kind \in {"null", "array", "pair"}

\* C13: once initialize() has returned true, no step of any later call
\* (the stages of process_sequence, quantize_embeddings, ip_search), whether
\* it succeeds or fails, changes the pipelines map or the shared buffer
\* pool: same keys, same buffers, same sizes.
C13_PoolAndPipelinesFrozen ==
  [][init_result = "true" =>
       /\ pipelines' = pipelines
       /\ shared_buffers' = shared_buffers
       /\ pool_bytes' = pool_bytes]_vars

\* a call failed on an initialized instance and the pool is still complete
C13_Witness ==
  /\ init_result = "true"
  /\ op \in {"quantize_embeddings", "ip_search"}
  /\ pc = "done"
  /\ ret \in {NULL, SearchFailure}
  /\ shared_buffers = SharedBufferNames
  /\ DOMAIN pool_bytes = SharedBufferNames

\* C14: every per-request buffer is released by the time the call returns:
\* the value handed to the caller does not refer to the memory of any
\* buffer the call allocated.
C14_BuffersReleasedAtReturn ==
  pc = "done" => ViewedBuffers(ret) = {}

\* the number of times the command buffer of kernel `name` was committed
\* during the current call
CommitCount(name) == Cardinality({i \in 1..Len(log) : log[i] = Commit(name)})

\* C15: no call resubmits work: process_sequence commits at most one command
\* buffer per stage (exactly one for each of the four when it succeeds, none
\* for the stages after the one that failed), quantize_embeddings and
\* ip_search commit at most one command buffer.
C15_NoResubmission ==
  /\ \A n \in PipelineNames : CommitCount(n) <= 1
  /\ op = "process_sequence" =>
       /\ \A n \in PipelineNames \ {Stages[i] : i \in 1..stage} : CommitCount(n) = 0
       /\ (pc = "done" /\ ret # NULL) =>
            \A i \in 1..Len(Stages) : CommitCount(Stages[i]) = 1
  /\ op = "quantize_embeddings" =>
       \A n \in PipelineNames \ {"quantize_embeddings"} : CommitCount(n) = 0
  /\ op = "ip_search" =>
       \A n \in PipelineNames \ {"ip_search"} : CommitCount(n) = 0

\* a sequence failed in its third stage after two committed stages
C15_Witness ==
  /\ op = "process_sequence"
  /\ pc = "done"
  /\ ret = NULL
  /\ stage = 3
  /\ CommitCount("embed") = 1
  /\ CommitCount("attention") = 1
  /\ CommitCount("feedforward") = 1

\* the events of one search, in the order ip_search makes them
SearchEventOrder ==
  <<Encoded("ip_search"), Encoded("topk_reduce"), Commit("ip_search"),
    Complete("ip_search")>>

\* C16: a search uses one command buffer: it encodes the score kernel and
\* then the top-K kernel, in that order, commits once and waits once; the
\* top-K kernel runs after the score kernel, and results are handed back
\* only after the wait.
C16_SearchSingleCommandBuffer ==
  op = "ip_search" =>
    /\ Len(log) <= Len(SearchEventOrder)
    /\ \A i \in 1..Len(log) : log[i] = SearchEventOrder[i]
    /\ disp # <<>> =>
         /\ Len(disp) = 2
         /\ disp[1].name = "ip_search"
         /\ disp[2].name = "topk_reduce"
    /\ (pc = "done" /\ ret # SearchFailure) => log = SearchEventOrder

\* a search over several rows completed and handed back its results
C16_Witness ==
  /\ SearchCompleted
  /\ ret # SearchFailure
  /\ Len(arg.database) >= 2
  /\ log = SearchEventOrder

\* C17: in the API server, whatever the interleaving of concurrent HTTP
\* requests, at most one call on the shared MetalCompute instance is
\* executing at a time, and at most one command buffer is in flight.
C17_OneMetalCallAtATime ==
  /\ Cardinality(InMetalCall) <= 1
  /\ Cardinality(CommandBuffersInFlight) <= 1

\* a command buffer is in flight for one request while a second request is
\* open: a stream suspended between two chunks
C17_Witness ==
  \E r, q \in Requests :
    /\ r # q
    /\ req[r].pc = "inflight"
    /\ req[q].kind = "stream"
    /\ req[q].pc = "yielded"
    /\ req[q].calls > 0

\* C18: initialize() returns true only when all seven entry points were
\* resolved and built: then the pipelines map holds exactly the seven names
\* and the pool exactly its three buffers; and in every state the pool is
\* non-empty only if all seven pipelines exist.
C18_TrueMeansFullyInitialized ==
  /\ init_result = "true" =>
       /\ pipelines = PipelineNames
       /\ Cardinality(pipelines) = 7
       /\ shared_buffers = {"position_encodings", "layer_norm_weights", "layer_norm_bias"}
  /\ shared_buffers # {} => pipelines = PipelineNames

\* initialize() returned true and a sequence ran through all its stages
C18_Witness ==
  /\ init_result = "true"
  /\ op = "process_sequence"
  /\ Len(outs) = Len(Stages)

\* C19: every stage that succeeds returns an array of its input's element
\* count (shape, type and byte length), so a successful process_sequence
\* returns an array of the shape of its input; and the sequence-length
\* constant bound for embed equals the one bound for infer, both
\* min(len, 512).
C19_ShapePreserved ==
  op = "process_sequence" =>
    /\ \A i \in 1..Len(outs) :
         /\ outs[i].kind = "array"
         /\ outs[i].data.len = disp[i].input.len
         /\ outs[i].data.len = arg.len
    /\ (pc = "done" /\ ret # NULL) => ret.data.len = arg.len
    /\ Len(disp) = Len(Stages) =>
         /\ disp[1].seq_length = disp[4].seq_length
         /\ disp[4].seq_length = Min(arg.len, MAX_SEQ_LENGTH)

\* a sequence longer than the maximum succeeded
C19_Witness ==
  /\ op = "process_sequence"
  /\ pc = "done"
  /\ ret # NULL
  /\ arg.len > MAX_SEQ_LENGTH
  /\ Len(disp) = Len(Stages)

\* C20: every buffer's byte length is its element count times its element
\* size: a stage's input and output buffers have the input array's byte
\* size, the quantizer's output one byte per element, the score scratch
\* N x 4 bytes, the index and top-score buffers k x 4 bytes each, the
\* positional-encoding buffer 512 x 256 x 4 bytes and each layer-norm
\* buffer 4 x 4 bytes.
C20_BufferByteLengths ==
  /\ \A b \in DOMAIN pool_bytes :
       pool_bytes[b] = IF b = "position_encodings" THEN 512 * 256 * 4 ELSE 4 * 4
  /\ op = "process_sequence" =>
       \A i \in 1..Len(disp) :
         /\ disp[i].in_bytes = disp[i].input.len * 4
         /\ disp[i].out_bytes = disp[i].input.len * 4
  /\ op = "quantize_embeddings" =>
       \A i \in 1..Len(disp) : disp[i].out_bytes = Len(disp[i].input)
  /\ op = "ip_search" =>
       \A i \in 1..Len(disp) :
         /\ disp[i].bytes.scores = Len(arg.database) * 4
         /\ disp[i].bytes.indices = arg.k * 4
         /\ disp[i].bytes.top_scores = arg.k * 4

\* the fourth stage of a sequence was encoded on an instance with its pool
C20_Witness ==
  /\ DOMAIN pool_bytes = SharedBufferNames
  /\ op = "process_sequence"
  /\ Len(disp) = Len(Stages)
  /\ arg.len >= 2

\* C21: for every value v of the representable range, the code the
\* quantizer produces is one of 0..255 and stands for a value within one
\* scale unit of v; and the call binds the two fixed constants, scale 0.1
\* and zero point 128, as 4-byte floats.
C21_RoundTripWithinScale ==
  (probe.fn = "quantize" /\ probe.applied) =>
    /\ probe.code \in 0..255
    /\ probe.back - probe.v <= 10
    /\ probe.v - probe.back <= 10
    /\ probe.constants = [scale_tenths |-> 1, zero_point |-> 128, bytes |-> 4]

\* a value half-way between two codes, below zero, was quantized
C21_Witness ==
  /\ probe.fn = "quantize"
  /\ probe.applied
  /\ probe.v = -1275
  /\ probe.back # probe.v

\* C22: the positional-encoding table entry [p, d] is written exactly once,
\* with sin(p / 10000^(d/256)) when d is even and with
\* cos(p / 10000^((d-1)/256)) when d is odd; no entry is left unwritten.
C22_TableMatchesClosedForm ==
  (probe.fn = "position_encodings" /\ probe.applied) =>
    /\ Cardinality(probe.writes) = 1
    /\ probe.writes =
         {[fn |-> IF probe.dim % 2 = 0 THEN "sin" ELSE "cos",
           pos |-> probe.pos,
           exp |-> IF probe.dim % 2 = 0 THEN probe.dim ELSE probe.dim - 1]}

\* the last entry of the table, row 511 and column 255, was examined
C22_Witness ==
  /\ probe.fn = "position_encodings"
  /\ probe.applied
  /\ probe.pos = 511
  /\ probe.dim = 255
  /\ probe.writes # {}

\* C23: when a committed command buffer completes with a device-side
\* execution error, the operation that issued it ends with its failure
\* value: the contents of the output buffers are not handed back.
C23_ExecutionErrorIsFailure ==
  cb.status = "error" =>
    /\ pc = "done"
    /\ ret \in {NULL, SearchFailure}

\* C24: a 1D dispatch over n >= 1 elements under a kernel limit of m >= 1
\* uses min(m, n) threads per group and ceil(n / threads-per-group) groups:
\* the groups cover all n elements, the last group is not entirely out of
\* range, and a group never has more than m threads.
C24_TilingCoversElements ==
  (probe.fn = "tiling" /\ probe.applied) =>
    /\ probe.threads_per_group = IF probe.m < probe.n THEN probe.m ELSE probe.n
    /\ probe.threads_per_group >= 1
    /\ probe.threads_per_group <= probe.m
    /\ probe.threadgroups * probe.threads_per_group >= probe.n
    /\ (probe.threadgroups - 1) * probe.threads_per_group < probe.n

\* an element count that the limit does not divide: the last group is
\* partly out of range
C24_Witness ==
  /\ probe.fn = "tiling"
  /\ probe.applied
  /\ probe.n = 7
  /\ probe.m = 3
  /\ probe.threadgroups = 3

\* the number of tokens in the arrays passed to process_sequence so far
RECURSIVE PassedTotal(_)
PassedTotal(p) == IF p = <<>> THEN 0 ELSE Head(p).len + PassedTotal(Tail(p))

\* C25: in process_request, create_embedding and process_request_stream a
\* text of more than 512 tokens is cut to its first 512 before anything is
\* dispatched: every array passed to process_sequence has at most 512
\* elements, one request dispatches at most 512 tokens in total, and a
\* stream at most 16 chunks.
C25_RequestsTruncated ==
  handler.kind \in {"completion", "embedding", "stream"} =>
    /\ handler.tokens <= 512
    /\ handler.tokens = IF handler.prompt > 512 THEN 512 ELSE handler.prompt
    /\ \A j \in 1..Len(handler.passed) : handler.passed[j].len <= 512
    /\ PassedTotal(handler.passed) <= 512
    /\ handler.kind = "stream" => Len(handler.passed) <= 16
    /\ handler.pc = "calling" => arg.len <= 512

\* a stream of more than 512 tokens has dispatched its sixteenth chunk
C25_Witness ==
  /\ handler.kind = "stream"
  /\ handler.prompt > 512
  /\ Len(handler.passed) = 16
  /\ PassedTotal(handler.passed) = 512

\* the stream has yielded its final message
StopYielded == \E j \in 1..Len(handler.yielded) : handler.yielded[j] = StopMessage

\* C26: a stream passes the cut token list as consecutive, non-overlapping
\* chunks of at most 32 tokens in ascending order, chunk j only after the
\* results of the j - 1 chunks before it were yielded; the final message
\* comes last and only after every chunk succeeded; when a chunk fails no
\* later chunk is dispatched and there is no final message.
C26_StreamChunksInOrder ==
  handler.kind = "stream" =>
    /\ \A j \in 1..Len(handler.passed) :
         /\ handler.passed[j].start = (j - 1) * 32
         /\ handler.passed[j].len \in 1..32
         /\ handler.passed[j].start + handler.passed[j].len <= handler.tokens
         /\ j < Len(handler.passed) =>
              handler.passed[j].start + handler.passed[j].len = handler.passed[j + 1].start
         /\ handler.passed[j].after = j - 1
    /\ StopYielded =>
         /\ ~handler.error
         /\ PassedTotal(handler.passed) = handler.tokens
         /\ Len(handler.yielded) = Len(handler.passed) + 1
         /\ handler.yielded[Len(handler.yielded)] = StopMessage
         /\ \A j \in 1..Len(handler.passed) : handler.yielded[j] = ChunkMessage
    /\ handler.error =>
         /\ ~StopYielded
         /\ handler.pc = "responded"
         /\ Len(handler.yielded) = Len(handler.passed) - 1

\* a stream of 33 tokens went through in two chunks and was completed
C26_Witness ==
  /\ handler.kind = "stream"
  /\ handler.tokens = 33
  /\ Len(handler.passed) = 2
  /\ handler.passed[2].len = 1
  /\ StopYielded

\* C27: a text of zero tokens is rejected on every API path: a completion
\* and an embedding end in an error, and a stream yields no final message
\* with finish_reason "stop".
C27_EmptyTokensRejected ==
  (handler.kind \in {"completion", "embedding", "stream"} /\ handler.prompt = 0) =>
    /\ handler.pc = "responded" => handler.error
    /\ handler.kind # "stream" /\ handler.pc = "responded" => handler.status = 500
    /\ ~StopYielded

\* C28: after initialize() returned false, every later process_sequence,
\* quantize_embeddings or ip_search call on the instance commits no command
\* buffer and returns its failure value.
C28_NoWorkAfterFailedInitialize ==
  init_result = "false" =>
    /\ \A i \in 1..Len(log) : log[i].ev # "commit"
    /\ pc = "done" => ret \in {NULL, SearchFailure}

\* C29: in every score dispatch of ip_search the vector dimension bound to
\* the kernel is the number of elements in the query buffer: a query of
\* another length than the database rows is answered with (None, None)
\* and never dispatched.
C29_QueryDimensionChecked ==
  op = "ip_search" =>
    /\ \A i \in 1..Len(disp) :
         disp[i].name = "ip_search" => disp[i].dim = Len(arg.query)
    /\ (pc = "done" /\ Len(arg.query) # Dim) => ret = SearchFailure

\* C30: when no embedding database has been loaded, a /v1/search request
\* is answered with HTTP status 400 and ip_search is not called for it.
C30_SearchWithoutDatabaseIs400 ==
  (handler.kind = "search" /\ handler.pc = "responded" /\ ~DatabaseLoaded) =>
    /\ handler.status = 400
    /\ ~handler.searched

====
